---------------------------- MODULE Spec2Model ----------------------------
(***************************************************************************)
(* A model of the tiny-df Dataframe (src/tiny-df/src/core/dataframe.rs):   *)
(* the row processor, the two constructors and the structural mutations.   *)
(* Rust positions are 0-based; sequences here are 1-based, so the cell at  *)
(* Rust position i is element i + 1.                                        *)
(***************************************************************************)
EXTENDS Integers, Sequences, FiniteSets

VARIABLES
    data,              \* Dataframe.data: sequence of Series
    columns,           \* Dataframe.columns: sequence of DataframeColumn
    indices,           \* Dataframe.indices: sequence of DataframeIndex
    data_orientation,  \* Dataframe.data_orientation
    size,              \* Dataframe.size: <<size.0, size.1>>
    fault,             \* TRUE once a call has panicked
    pc,                \* position of the driving program
    op,                \* name of the watched call
    arg,               \* arguments of the watched call
    ret,               \* what the watched call returned, as an Option
    pre,               \* the Dataframe the watched call was made on
    calls              \* number of public calls made on the constructed Dataframe

vars ==
    <<data, columns, indices, data_orientation, size, fault, pc, op, arg, ret, pre, calls>>

dfvars == <<data, columns, indices, data_orientation, size>>

-----------------------------------------------------------------------------
(* Bounds of the model *)

\* longest record drawn as an input
MaxLen == 3
\* most records drawn in one input
MaxRecs == 3
\* most cells and schema columns drawn in one constructor input
MaxInput == 6
\* most cells and schema columns of the input the mutated Dataframe is built from
MaxSeed == 2
\* most cells and schema columns of the input of a watched constructor call
MaxWatched == 4
\* most public calls made on the constructed Dataframe
MaxCalls == 2
\* most records, positions, names or labels given to a batch call
MaxBatch == 2
\* largest position given to a positional call
MaxPos == 1

-----------------------------------------------------------------------------
(* meta: DataType, DataframeData, DataframeColumn, DataOrientation *)

Horizontal == "Horizontal"
Vertical == "Vertical"
Raw == "Raw"
Orientations == {Horizontal, Vertical, Raw}

NoneCell == [t |-> "None", v |-> 0]
ShortCell(n) == [t |-> "Short", v |-> n]
StringCell(s) == [t |-> "String", v |-> s]
Id(n) == [t |-> "Id", v |-> n]

\* the cell kinds constructor inputs are drawn from
Cells == {ShortCell(1), StringCell("a"), NoneCell}

\* the cell kinds the program's inputs are drawn from
ArgCells == {ShortCell(1), StringCell("a")}

\* the records batches are made of
BatchRecords == {<<>>, <<StringCell("a"), ShortCell(1)>>, <<ShortCell(1), StringCell("a")>>}

\* From<&DataframeData> for DataType: the kind of a cell
DataTypeOf(c) == c.t

Digits == <<"0", "1", "2", "3", "4", "5", "6", "7", "8", "9">>

\* Display for DataframeData: the text of a cell
to_string(c) ==
    CASE c.t = "String" -> c.v
      [] c.t = "None" -> "None"
      [] OTHER -> IF c.v \in 0..9 THEN Digits[c.v + 1] ELSE "big"

\* From<String> for DataframeData: the cell that holds a text
NameCell(name) == StringCell(name)

DataframeColumn(name, col_type) == [name |-> name, col_type |-> col_type]

\* Default for DataframeColumn: empty name, none type
DefaultColumn == DataframeColumn("", "None")

\* Default for DataOrientation
DefaultOrientation == Raw

-----------------------------------------------------------------------------
(* Sequence helpers: Vec::insert, Vec::remove *)

\* Vec::insert(index, x), index <= len
VecInsert(s, index, x) ==
    [k \in 1..(Len(s) + 1) |->
        IF k <= index THEN s[k] ELSE IF k = index + 1 THEN x ELSE s[k - 1]]

\* Vec::remove(index), index < len
VecRemove(s, index) ==
    [k \in 1..(Len(s) - 1) |-> IF k <= index THEN s[k] ELSE s[k + 1]]

Min(a, b) == IF a < b THEN a ELSE b

-----------------------------------------------------------------------------
(* DataframeRowProcessor *)

\* RefCols::D and RefCols::R(columns)
RefD == [kind |-> "D", cols |-> <<>>]
RefR(cols) == [kind |-> "R", cols |-> cols]

\* DataframeRowProcessor::new; an Option is a sequence of length 0 or 1
ProcessorNew(ref_col) ==
    [data |-> <<>>, columns |-> ref_col, cache_col_name |-> <<>>,
     cache_col |-> <<>>, panic |-> FALSE]

ExecKeepsAlways(col_type, cell) == cell

\* the cell exec pushes: the cell when its kind matches, else the missing tag
ExecKeep(col_type, cell) ==
    IF col_type = DataTypeOf(cell) THEN cell ELSE NoneCell

\* DataframeRowProcessor::exec
Exec(p, type_idx, cell) ==
    IF p.panic THEN p
    ELSE IF p.columns.kind = "D" THEN
        IF type_idx = 0 THEN
            [p EXCEPT !.cache_col_name = <<to_string(cell)>>]
        ELSE
            LET named == type_idx # 1 \/ p.cache_col_name # <<>>
                cc == IF type_idx = 1 /\ named
                      THEN <<DataframeColumn(p.cache_col_name[1], DataTypeOf(cell))>>
                      ELSE p.cache_col
            IN  IF ~named \/ cc = <<>> THEN [p EXCEPT !.panic = TRUE]
                ELSE [p EXCEPT !.cache_col = cc,
                               !.data = Append(p.data, ExecKeep(cc[1].col_type, cell))]
    ELSE
        IF type_idx >= Len(p.columns.cols) THEN [p EXCEPT !.panic = TRUE]
        ELSE [p EXCEPT !.data =
                Append(p.data, ExecKeep(p.columns.cols[type_idx + 1].col_type, cell))]

SkipPushesNothing(p) == p

\* DataframeRowProcessor::skip
Skip(p) == IF p.panic THEN p ELSE [p EXCEPT !.data = Append(p.data, NoneCell)]

\* get_cache_col, had it kept the cached name when no column was discovered
GetCacheColNamed(p) ==
    IF p.cache_col # <<>> THEN p.cache_col[1]
    ELSE IF p.cache_col_name # <<>> THEN DataframeColumn(p.cache_col_name[1], "None")
    ELSE DefaultColumn

\* DataframeRowProcessor::get_cache_col
GetCacheCol(p) == IF p.cache_col = <<>> THEN DefaultColumn ELSE p.cache_col[1]

\* one turn of the loop `match d.get_mut(i) { Some(v) => exec(..), None => skip() }`
\* fixed < 0: exec is called with position i; otherwise with position fixed
FeedStep(p, rec, i, fixed) ==
    IF i < Len(rec)
    THEN Exec(p, IF fixed < 0 THEN i ELSE fixed, rec[i + 1])
    ELSE Skip(p)

RECURSIVE FeedFrom(_, _, _, _, _)
\* the loop `for i in from..n` over one record
FeedFrom(p, rec, i, n, fixed) ==
    IF i >= n THEN p
    ELSE FeedFrom(FeedStep(p, rec, i, fixed), rec, i + 1, n, fixed)

Feed(ref_col, rec, n, fixed) == FeedFrom(ProcessorNew(ref_col), rec, 0, n, fixed)

-----------------------------------------------------------------------------
(* Dataframe construction *)

\* create_dataframe_indices
create_dataframe_indices(len) == [i \in 1..len |-> Id(i - 1)]

MkDataframe(d, c, i, o, s) ==
    [data |-> d, columns |-> c, indices |-> i, data_orientation |-> o,
     size |-> s, panic |-> FALSE]

\* Dataframe::default
DataframeDefault == MkDataframe(<<>>, <<>>, <<>>, DefaultOrientation, <<0, 0>>)

Panicked(df) == [df EXCEPT !.panic = TRUE]

\* new_df_dir_n, had it counted the records as rows
new_df_dir_n_counted(d) == [DataframeDefault EXCEPT !.data = d, !.size = <<Len(d), 0>>]

\* new_df_dir_n
new_df_dir_n(d) == [DataframeDefault EXCEPT !.data = d]

\* new_df_dir_h_col
new_df_dir_h_col(d, cols) ==
    LET length_of_head_row == Len(cols)
        ps == [k \in 1..Len(d) |-> Feed(RefR(cols), d[k], length_of_head_row, -1)]
        res == [k \in 1..Len(d) |-> ps[k].data]
        length_of_res == Len(res)
        df == MkDataframe(res, cols, create_dataframe_indices(length_of_res),
                          Horizontal, <<length_of_res, length_of_head_row>>)
    IN  IF \E k \in 1..Len(d) : ps[k].panic THEN Panicked(df) ELSE df

\* new_df_dir_v_col: the number of records the loop processes before its break
new_df_dir_v_col_taken(d, cols) == Min(Len(d), Len(cols))

\* new_df_dir_v_col
new_df_dir_v_col(d, cols) ==
    IF Len(d) = 0 THEN DataframeDefault
    ELSE
    LET length_of_head_row == Len(d[1])
        length_of_res == Len(cols)
        taken == new_df_dir_v_col_taken(d, cols)
        ps == [k \in 1..taken |-> Feed(RefR(cols), d[k], length_of_head_row, k - 1)]
        res == [k \in 1..taken |-> ps[k].data]
        df == MkDataframe(res, cols, create_dataframe_indices(length_of_head_row),
                          Vertical, <<length_of_res, length_of_head_row>>)
    IN  IF \E k \in 1..taken : ps[k].panic THEN Panicked(df) ELSE df

\* new_df_dir_h: how many cells of the 2nd record give a column type
new_df_dir_h_types(vd, length_of_head_row) == Min(Len(vd), length_of_head_row)

\* new_df_dir_h
new_df_dir_h(d) ==
    LET columns_name == [k \in 1..Len(d[1]) |-> to_string(d[1][k])]
        length_of_head_row == Len(columns_name)
    IN  IF Len(d) < 2 THEN DataframeDefault
        ELSE
        LET vd == d[2]
            column_type == [k \in 1..new_df_dir_h_types(vd, length_of_head_row) |->
                               DataTypeOf(vd[k])]
            cols == [k \in 1..Min(Len(columns_name), Len(column_type)) |->
                        DataframeColumn(columns_name[k], column_type[k])]
        IN  new_df_dir_h_col(Tail(d), cols)

\* new_df_dir_v
new_df_dir_v(d) ==
    LET length_of_head_row == Len(d[1])
    IN  IF length_of_head_row = 1 THEN DataframeDefault
        ELSE
        LET ps == [k \in 1..Len(d) |-> Feed(RefD, d[k], length_of_head_row, -1)]
            cols == [k \in 1..Len(d) |-> GetCacheCol(ps[k])]
            res == [k \in 1..Len(d) |-> ps[k].data]
            length_of_res == Len(res)
            df == MkDataframe(res, cols,
                              create_dataframe_indices(length_of_head_row - 1),
                              Vertical, <<length_of_res, length_of_head_row - 1>>)
        IN  IF \E k \in 1..Len(d) : ps[k].panic THEN Panicked(df) ELSE df

is_empty_no_records(d) == Len(d) = 0

\* Dataframe::is_empty
is_empty(d) == IF Len(d) = 0 THEN TRUE ELSE Len(d[1]) = 0

\* Dataframe::new
Dataframe_new(d, orient) ==
    IF is_empty(d) THEN DataframeDefault
    ELSE CASE orient = Horizontal -> new_df_dir_h(d)
           [] orient = Vertical -> new_df_dir_v(d)
           [] OTHER -> new_df_dir_n(d)

\* Dataframe::from_2d_vec
from_2d_vec(d, orient, cols) ==
    IF is_empty(d) \/ Len(cols) = 0 THEN DataframeDefault
    ELSE CASE orient = Horizontal -> new_df_dir_h_col(d, cols)
           [] orient = Vertical -> new_df_dir_v_col(d, cols)
           [] OTHER -> new_df_dir_n(d)

-----------------------------------------------------------------------------
(* usize arithmetic on the size components.  A component that wrapped below   *)
(* zero (overflow checks off) is kept as the negative number congruent to it  *)
(* modulo 2^64, so that adding one wraps back the way the machine does.       *)

\* a value that wrapped: 2^64 + x, far larger than any length
Wrapped(x) == x < 0

UNeverGt(index, s) == FALSE

UGe(index, s) == IF Wrapped(s) THEN FALSE ELSE index >= s

\* `index > size` on usize
UGt(index, s) == IF Wrapped(s) THEN FALSE ELSE index > s

\* `size -= 1`: a panic with overflow checks on, a wrap with them off
SubOnePanics(x, overflow_checks) == x = 0 /\ overflow_checks

-----------------------------------------------------------------------------
(* Dataframe mutation *)

\* Dataframe::iloc; the result is an Option: <<>> for None, <<v>> for Some(v)
iloc(df, i, j) ==
    IF i < Len(df.data) /\ j < Len(df.data[i + 1]) THEN <<df.data[i + 1][j + 1]>>
    ELSE <<>>

\* Iterator::position with an equality test: the 0-based position of the first
\* element equal to x, as an Option
Position(s, x) ==
    IF \E k \in 1..Len(s) : s[k] = x
    THEN <<(CHOOSE k \in 1..Len(s) : s[k] = x /\ \A m \in 1..(k - 1) : s[m] # x) - 1>>
    ELSE <<>>

\* Dataframe::columns_name
columns_name(df) == [k \in 1..Len(df.columns) |-> df.columns[k].name]

loc_label_outer(df, i, j) ==
    LET o_i == Position(df.indices, i)
        o_j == Position(columns_name(df), j)
    IN  [ret |-> IF /\ df.data_orientation # Raw
                    /\ o_i # <<>>
                    /\ o_j # <<>>
                    /\ o_i[1] < Len(df.data)
                    /\ o_j[1] < Len(df.data[o_i[1] + 1])
                 THEN <<df.data[o_i[1] + 1][o_j[1] + 1]>>
                 ELSE <<>>,
         panic |-> FALSE]

\* Dataframe::loc: [ret |-> Option, panic |-> BOOLEAN]
loc(df, i, j) ==
    LET o_i == Position(df.indices, i)
        o_j == Position(columns_name(df), j)
        none == [ret |-> <<>>, panic |-> FALSE]
        panicked == [ret |-> <<>>, panic |-> TRUE]
        at(a, b) == [ret |-> IF b < Len(df.data[a + 1])
                             THEN <<df.data[a + 1][b + 1]>> ELSE <<>>,
                     panic |-> FALSE]
    IN  CASE df.data_orientation = Horizontal ->
                IF o_i = <<>> THEN none
                ELSE IF o_i[1] >= Len(df.data) THEN panicked
                ELSE IF o_j = <<>> THEN none
                ELSE at(o_i[1], o_j[1])
          [] df.data_orientation = Vertical ->
                IF o_j = <<>> THEN none
                ELSE IF o_j[1] >= Len(df.data) THEN panicked
                ELSE IF o_i = <<>> THEN panicked
                ELSE at(o_j[1], o_i[1])
          [] OTHER -> none

rename_column_first(df, idx, name) ==
    IF Len(df.columns) > 0
    THEN [df EXCEPT !.columns[1].name = name]
    ELSE df

\* Dataframe::rename_column
rename_column(df, idx, name) ==
    IF idx < Len(df.columns)
    THEN [df EXCEPT !.columns[idx + 1].name = name]
    ELSE df

rename_columns_equal_only(df, names) ==
    IF Len(names) = Len(df.columns)
    THEN [df EXCEPT !.columns =
            [k \in 1..Len(df.columns) |-> [df.columns[k] EXCEPT !.name = names[k]]]]
    ELSE df

\* Dataframe::rename_columns
rename_columns(df, names) ==
    [df EXCEPT !.columns =
        [k \in 1..Len(df.columns) |->
            IF k <= Len(names) THEN [df.columns[k] EXCEPT !.name = names[k]]
            ELSE df.columns[k]]]

\* Dataframe::replace_index
replace_index(df, idx, value) ==
    IF idx < Len(df.indices)
    THEN [df EXCEPT !.indices[idx + 1] = value]
    ELSE df

\* Dataframe::replace_indices
replace_indices(df, values) ==
    [df EXCEPT !.indices =
        [k \in 1..Len(df.indices) |->
            IF k <= Len(values) THEN values[k] ELSE df.indices[k]]]

\* transpose, had it kept the orientation it found
transpose_same_orientation(df) ==
    IF df.data_orientation = Raw THEN df
    ELSE IF \/ df.size[1] < 0 \/ df.size[2] < 0
            \/ \E i \in 1..df.size[1] : i > Len(df.data) \/ Len(df.data[i]) < df.size[2]
    THEN Panicked(df)
    ELSE [df EXCEPT
            !.data = [j \in 1..df.size[2] |-> [i \in 1..df.size[1] |-> df.data[i][j]]],
            !.size = <<df.size[2], df.size[1]>>]

transpose_size_only(df) == [df EXCEPT !.size = <<df.size[2], df.size[1]>>]

\* Dataframe::transpose
transpose(df) ==
    IF df.data_orientation = Raw THEN df
    ELSE
    LET m == df.size[1]
        n == df.size[2]
    IN  IF Wrapped(n) \/ (Wrapped(m) /\ n > 0) THEN Panicked(df)
        ELSE IF n > 0 /\ \E i \in 1..m : i > Len(df.data) \/ Len(df.data[i]) < n
        THEN Panicked(df)
        ELSE [df EXCEPT
                !.data = [j \in 1..n |-> [i \in 1..m |-> df.data[i][j]]],
                !.size = <<n, m>>,
                !.data_orientation =
                    IF df.data_orientation = Horizontal THEN Vertical ELSE Horizontal]

\* Dataframe::push_indices
push_indices(df) ==
    LET s0 == df.size[1] + 1
    IN  [df EXCEPT !.size = <<s0, df.size[2]>>,
                   !.indices = Append(df.indices, Id(s0))]

\* Dataframe::append
append(df, series) ==
    IF df.panic THEN df
    ELSE CASE df.data_orientation = Horizontal ->
                IF Wrapped(df.size[2]) THEN Panicked(df)
                ELSE LET p == Feed(RefR(df.columns), series, df.size[2], -1)
                     IN  IF p.panic THEN Panicked(df)
                         ELSE push_indices([df EXCEPT !.data = Append(df.data, p.data)])
           [] df.data_orientation = Vertical ->
                IF Wrapped(df.size[2]) /\ df.size[2] # -1 THEN Panicked(df)
                ELSE LET p == Feed(RefD, series, df.size[2] + 1, -1)
                     IN  IF p.panic THEN Panicked(df)
                         ELSE push_indices(
                                [df EXCEPT !.columns = Append(df.columns, GetCacheCol(p)),
                                           !.data = Append(df.data, p.data)])
           [] OTHER -> [df EXCEPT !.data = Append(df.data, series)]

RECURSIVE AppendAll(_, _)
\* the loop `for row in data { self.append(row) }`
AppendAll(df, rows) ==
    IF rows = <<>> THEN df ELSE AppendAll(append(df, Head(rows)), Tail(rows))

concat_bulk(df, rows) == [df EXCEPT !.data = df.data \o rows]

\* Dataframe::concat
concat(df, rows) ==
    IF df.data_orientation = Raw THEN [df EXCEPT !.data = df.data \o rows]
    ELSE AppendAll(df, rows)

\* Dataframe::insert_indices
insert_indices(df, index, orient) ==
    CASE orient = Horizontal ->
            IF index > Len(df.indices) THEN Panicked(df)
            ELSE [df EXCEPT !.indices = VecInsert(df.indices, index, Id(df.size[1])),
                            !.size = <<df.size[1] + 1, df.size[2]>>]
      [] orient = Vertical ->
            IF index > Len(df.indices) THEN Panicked(df)
            ELSE [df EXCEPT !.indices = VecInsert(df.indices, index, Id(df.size[2])),
                            !.size = <<df.size[1], df.size[2] + 1>>]
      [] OTHER -> df

SpliceNothing(df, index, cells) == df

\* the loop of insert_h (column-wise) and insert_v (row-wise): cell k of cells is
\* spliced into data[k] at index; a panic when a record is absent or too short
SpliceCells(df, index, cells) ==
    IF \E k \in 1..Len(cells) : k > Len(df.data) \/ index > Len(df.data[k])
    THEN Panicked(df)
    ELSE [df EXCEPT !.data =
            [k \in 1..Len(df.data) |->
                IF k <= Len(cells) THEN VecInsert(df.data[k], index, cells[k])
                ELSE df.data[k]]]

\* Dataframe::insert_h
insert_h(df, index, series, orient) ==
    CASE orient = Horizontal ->
            IF Wrapped(df.size[2]) THEN Panicked(df)
            ELSE LET p == Feed(RefR(df.columns), series, df.size[2], -1)
                 IN  IF p.panic \/ index > Len(df.data) THEN Panicked(df)
                     ELSE insert_indices(
                            [df EXCEPT !.data = VecInsert(df.data, index, p.data)],
                            index, orient)
      [] orient = Vertical ->
            IF Wrapped(df.size[1]) /\ df.size[1] # -1 THEN Panicked(df)
            ELSE LET p == Feed(RefD, series, df.size[1] + 1, -1)
                     spliced == SpliceCells(df, index, p.data)
                 IN  IF p.panic \/ spliced.panic \/ index > Len(df.columns)
                     THEN Panicked(df)
                     ELSE [spliced EXCEPT
                            !.columns = VecInsert(df.columns, index, GetCacheCol(p)),
                            !.size = <<df.size[1], df.size[2] + 1>>]
      [] OTHER -> df

\* Dataframe::insert_v
insert_v(df, index, series, orient) ==
    CASE orient = Horizontal ->
            IF Wrapped(df.size[2]) /\ df.size[2] # -1 THEN Panicked(df)
            ELSE LET p == Feed(RefD, series, df.size[2] + 1, -1)
                 IN  IF p.panic \/ index > Len(df.columns) \/ index > Len(df.data)
                     THEN Panicked(df)
                     ELSE [df EXCEPT
                            !.columns = VecInsert(df.columns, index, GetCacheCol(p)),
                            !.size = <<df.size[1] + 1, df.size[2]>>,
                            !.data = VecInsert(df.data, index, p.data)]
      [] orient = Vertical ->
            IF Wrapped(df.size[1]) THEN Panicked(df)
            ELSE LET p == Feed(RefR(df.columns), series, df.size[1], -1)
                     spliced == SpliceCells(df, index, p.data)
                 IN  IF p.panic \/ spliced.panic THEN Panicked(df)
                     ELSE insert_indices(spliced, index, orient)
      [] OTHER -> df

\* Dataframe::insert_r
insert_r(df, index, series, orient) ==
    CASE orient = Horizontal ->
            IF index > Len(df.data) THEN Panicked(df)
            ELSE [df EXCEPT !.data = VecInsert(df.data, index, series)]
      [] orient = Vertical ->
            SpliceCells(df, index, SubSeq(series, 1, Min(Len(series), Len(df.data))))
      [] OTHER -> df

insert_any_series(df, index, series, orient) ==
    IF df.panic THEN df
    ELSE CASE df.data_orientation = Horizontal -> insert_h(df, index, series, orient)
           [] df.data_orientation = Vertical -> insert_v(df, index, series, orient)
           [] OTHER -> insert_r(df, index, series, orient)

\* Dataframe::insert
insert(df, index, series, orient) ==
    IF df.panic \/ Len(series) = 0 THEN df
    ELSE CASE df.data_orientation = Horizontal -> insert_h(df, index, series, orient)
           [] df.data_orientation = Vertical -> insert_v(df, index, series, orient)
           [] OTHER -> insert_r(df, index, series, orient)

RECURSIVE InsertEachAtIndex(_, _, _, _, _)
InsertEachAtIndex(df, index, rows, i, orient) ==
    IF i >= Len(rows) THEN df
    ELSE InsertEachAtIndex(insert(df, index, rows[i + 1], orient),
                           index, rows, i + 1, orient)

RECURSIVE InsertEach(_, _, _, _, _)
\* the loop `for (i, v) in dataframe.into_iter().enumerate()` of insert_many
InsertEach(df, index, rows, i, orient) ==
    IF i >= Len(rows) THEN df
    ELSE InsertEach(insert(df, i + index, rows[i + 1], orient), index, rows, i + 1, orient)

\* Dataframe::insert_many
insert_many(df, index, rows, orient) == InsertEach(df, index, rows, 0, orient)

truncate_data_only(df) == [df EXCEPT !.data = <<>>, !.size = <<0, 0>>]

\* Dataframe::truncate
truncate(df) == [df EXCEPT !.data = <<>>, !.indices = <<>>, !.size = <<0, 0>>]

\* `self.data.iter_mut().for_each(|v| { v.remove(index); })`
RemoveFromEach(df, index) ==
    IF \E k \in 1..Len(df.data) : index >= Len(df.data[k]) THEN Panicked(df)
    ELSE [df EXCEPT !.data = [k \in 1..Len(df.data) |-> VecRemove(df.data[k], index)]]

\* Dataframe::delete_h
delete_h(df, index, orient, overflow_checks) ==
    CASE orient = Horizontal ->
            IF UGt(index, df.size[1]) THEN df
            ELSE IF \/ index >= Len(df.data)
                    \/ index >= Len(df.indices)
                    \/ SubOnePanics(df.size[1], overflow_checks)
            THEN Panicked(df)
            ELSE [df EXCEPT !.data = VecRemove(df.data, index),
                            !.indices = VecRemove(df.indices, index),
                            !.size = <<df.size[1] - 1, df.size[2]>>]
      [] orient = Vertical ->
            IF UGt(index, df.size[2]) THEN df
            ELSE LET removed == RemoveFromEach(df, index)
                 IN  IF \/ removed.panic
                        \/ index >= Len(df.columns)
                        \/ SubOnePanics(df.size[2], overflow_checks)
                     THEN Panicked(df)
                     ELSE [removed EXCEPT
                            !.columns = VecRemove(df.columns, index),
                            !.size = <<df.size[1], df.size[2] - 1>>]
      [] OTHER -> df

\* Dataframe::delete_v
delete_v(df, index, orient, overflow_checks) ==
    CASE orient = Horizontal ->
            IF UGt(index, df.size[1]) THEN df
            ELSE IF \/ index >= Len(df.data)
                    \/ index >= Len(df.columns)
                    \/ SubOnePanics(df.size[1], overflow_checks)
            THEN Panicked(df)
            ELSE [df EXCEPT !.data = VecRemove(df.data, index),
                            !.columns = VecRemove(df.columns, index),
                            !.size = <<df.size[1] - 1, df.size[2]>>]
      [] orient = Vertical ->
            IF UGt(index, df.size[2]) THEN df
            ELSE LET removed == RemoveFromEach(df, index)
                 IN  IF \/ removed.panic
                        \/ index >= Len(df.indices)
                        \/ SubOnePanics(df.size[2], overflow_checks)
                     THEN Panicked(df)
                     ELSE [removed EXCEPT
                            !.indices = VecRemove(df.indices, index),
                            !.size = <<df.size[1], df.size[2] - 1>>]
      [] OTHER -> df

\* Dataframe::delete_r
delete_r(df, index, orient) ==
    CASE orient = Horizontal ->
            IF index >= Len(df.data) THEN Panicked(df)
            ELSE [df EXCEPT !.data = VecRemove(df.data, index)]
      [] orient = Vertical -> RemoveFromEach(df, index)
      [] OTHER -> df

\* Dataframe::delete: the match is on the orient argument
delete(df, index, orient, overflow_checks) ==
    IF df.panic THEN df
    ELSE CASE orient = Horizontal -> delete_h(df, index, orient, overflow_checks)
           [] orient = Vertical -> delete_v(df, index, orient, overflow_checks)
           [] OTHER -> delete_r(df, index, orient)

SortKeepsOrder(s) == s

RECURSIVE SortDescending(_)
\* `indices.sort_by(|a, b| b.cmp(a))`
SortDescending(s) ==
    IF s = <<>> THEN <<>>
    ELSE LET k == CHOOSE k \in 1..Len(s) : \A m \in 1..Len(s) : s[m] <= s[k]
         IN  <<s[k]>> \o SortDescending([m \in 1..(Len(s) - 1) |->
                                            IF m < k THEN s[m] ELSE s[m + 1]])

RECURSIVE DeleteEach(_, _, _, _)
\* the loop `for i in indices { self.delete(i, orient.clone()) }`
DeleteEach(df, positions, orient, overflow_checks) ==
    IF positions = <<>> THEN df
    ELSE DeleteEach(delete(df, Head(positions), orient, overflow_checks),
                    Tail(positions), orient, overflow_checks)

\* Dataframe::delete_many
delete_many(df, positions, orient, overflow_checks) ==
    DeleteEach(df, SortDescending(positions), orient, overflow_checks)

HeadOfTypes(cols) == [k \in 1..Len(cols) |-> NameCell(cols[k].col_type)]

\* the header record made of the column names
HeadOf(cols) == [k \in 1..Len(cols) |-> NameCell(cols[k].name)]

DF_from_data_only(df) == df.data

\* From<Dataframe> for DF; the Vertical branch zips data with columns and stops
\* at the shorter
DF_from(df) ==
    CASE df.data_orientation = Horizontal -> VecInsert(df.data, 0, HeadOf(df.columns))
      [] df.data_orientation = Vertical ->
            [k \in 1..Min(Len(df.data), Len(df.columns)) |->
                VecInsert(df.data[k], 0, NameCell(df.columns[k].name))]
      [] OTHER -> df.data

-----------------------------------------------------------------------------
(* Inputs *)

RECURSIVE SumTo(_, _)
\* shape[1] + ... + shape[k]
SumTo(shape, k) == IF k = 0 THEN 0 ELSE shape[k] + SumTo(shape, k - 1)

\* the records of lengths shape[1], shape[2], ... holding the cells of flat in order
Split(flat, shape) ==
    [k \in 1..Len(shape) |->
        SubSeq(flat, SumTo(shape, k - 1) + 1, SumTo(shape, k))]

\* the record lengths of the inputs of at most MaxRecs records of at most MaxLen
\* cells, budget cells in all
Shapes(budget) ==
    {shape \in UNION {[1..n -> 0..MaxLen] : n \in 0..MaxRecs} :
        SumTo(shape, Len(shape)) <= budget}

\* the column definitions schemas are drawn from
InputColumns == {DataframeColumn("x", "Short"), DataframeColumn("y", "String")}

SchemasUpTo(n) == UNION {[1..k -> InputColumns] : k \in 0..n}

\* a constructor input: records, orientation and (for from_2d_vec) a schema
CtorArg(d, o, cols) == [data |-> d, orient |-> o, columns |-> cols]

NoArg == CtorArg(<<>>, Raw, <<>>)

\* the constructor inputs of at most budget cells and schema columns
IsCtorInput(a, budget) ==
    \E cols \in SchemasUpTo(MaxLen), o \in Orientations :
        \E shape \in Shapes(budget - Len(cols)) :
            \E flat \in [1..SumTo(shape, Len(shape)) -> Cells] :
                a = CtorArg(Split(flat, shape), o, cols)

\* the records given to append and insert: empty, of one cell, and of two cells
\* of either kind first
ArgRecords == BatchRecords \cup {<<StringCell("a")>>}

\* the axes given to the batch calls
Axes == {Horizontal, Vertical}

\* the batches given to concat and insert_many
ArgBatches == [1..MaxBatch -> BatchRecords]

\* the positions given to the positional calls: in range, at the boundary, beyond
ArgPositions == 0..MaxPos

\* the position lists given to delete_many
ArgPositionLists ==
    {ps \in UNION {[1..n -> ArgPositions] : n \in 1..MaxBatch} :
        \A i, j \in 1..Len(ps) : i # j => ps[i] # ps[j]}

\* the names given to rename_column and rename_columns, and asked of loc
ArgNames == {"n", "a"}

\* the names given to rename_columns are fresh and pairwise different
NewNames == <<"n", "m", "p", "q">>

ArgNameLists == {SubSeq(NewNames, 1, k) : k \in 0..MaxBatch}

\* the labels given to replace_index and replace_indices, and asked of loc
ArgLabels == {StringCell("k"), Id(0)}

\* the labels given to replace_indices are fresh and pairwise different
NewLabels == <<StringCell("k"), StringCell("l"), StringCell("m"), StringCell("n")>>

ArgLabelLists == {SubSeq(NewLabels, 1, k) : k \in 0..MaxBatch}

-----------------------------------------------------------------------------
(* The state machine *)

Self ==
    [data |-> data, columns |-> columns, indices |-> indices,
     data_orientation |-> data_orientation, size |-> size, panic |-> FALSE]

\* the call returned df: the Dataframe becomes df, or the call panicked and the
\* program ends with the Dataframe as it was
Becomes(df) ==
    IF df.panic
    THEN fault' = TRUE /\ UNCHANGED dfvars
    ELSE /\ data' = df.data
         /\ columns' = df.columns
         /\ indices' = df.indices
         /\ data_orientation' = df.data_orientation
         /\ size' = df.size
         /\ fault' = FALSE

InitUnbuilt ==
    /\ pc = "input"
    /\ op = "none"
    /\ ret = <<>>
    /\ pre = DataframeDefault
    /\ calls = 0
    /\ data = <<>>
    /\ columns = <<>>
    /\ indices = <<>>
    /\ data_orientation = DefaultOrientation
    /\ size = <<0, 0>>
    /\ fault = FALSE

\* Constructors as pure functions: the input is drawn first, then one is applied

InitCtor == InitUnbuilt /\ IsCtorInput(arg, MaxInput)

CtorNew ==
    /\ pc = "input"
    /\ arg.columns = <<>>
    /\ \E df \in {Dataframe_new(arg.data, arg.orient)} : Becomes(df)
    /\ pc' = "end"
    /\ op' = "new"
    /\ UNCHANGED <<arg, ret, pre, calls>>

CtorFrom2dVec ==
    /\ pc = "input"
    /\ \E df \in {from_2d_vec(arg.data, arg.orient, arg.columns)} : Becomes(df)
    /\ pc' = "end"
    /\ op' = "from_2d_vec"
    /\ UNCHANGED <<arg, ret, pre, calls>>

NextCtor == CtorNew \/ CtorFrom2dVec

SpecCtor == InitCtor /\ [][NextCtor]_vars

\* The program: a Dataframe is constructed from a small input, then at most
\* MaxCalls public calls are made on it.  The last call of a run is the watched
\* one: its arguments, the Dataframe it was made on and its result are kept, and
\* the run ends.  The calls before it only bring the Dataframe where it is.

Init == InitUnbuilt /\ arg = NoArg

\* a constructor call that returns df
Built(name, df, a, watch) ==
    /\ pc = "input"
    /\ \E d \in {df} : Becomes(d)
    /\ pc' = IF watch THEN "end" ELSE "built"
    /\ op' = IF watch THEN name ELSE op
    /\ arg' = IF watch THEN a ELSE arg
    /\ calls' = 0
    /\ UNCHANGED <<ret, pre>>

NewStep(d, o, watch) == Built("new", Dataframe_new(d, o), CtorArg(d, o, <<>>), watch)

From2dVecStep(d, o, cols, watch) ==
    Built("from_2d_vec", from_2d_vec(d, o, cols), CtorArg(d, o, cols), watch)

BuildNew ==
    /\ pc = "input"
    /\ \E o \in Orientations, watch \in BOOLEAN :
        \E shape \in Shapes(IF watch THEN MaxWatched ELSE MaxSeed) :
            \E flat \in [1..SumTo(shape, Len(shape)) -> ArgCells] :
                NewStep(Split(flat, shape), o, watch)

BuildFrom2dVec ==
    /\ pc = "input"
    /\ \E cols \in SchemasUpTo(MaxLen), o \in Orientations, watch \in BOOLEAN :
        \E shape \in Shapes((IF watch THEN MaxWatched ELSE MaxSeed) - Len(cols)) :
            \E flat \in [1..SumTo(shape, Len(shape)) -> ArgCells] :
                From2dVecStep(Split(flat, shape), o, cols, watch)

\* a public call with arguments a on the constructed Dataframe that leaves it as
\* df and returns r; a call that is not watched leaves room for the watched one
PublicCall(name, df, r, a, watch) ==
    /\ pc = "built"
    /\ ~fault
    /\ calls < MaxCalls
    /\ watch \/ calls + 1 < MaxCalls
    /\ \E d \in {df} : Becomes(d)
    /\ calls' = calls + 1
    /\ op' = IF watch THEN name ELSE op
    /\ pc' = IF watch THEN "end" ELSE "built"
    /\ ret' = IF watch THEN r ELSE ret
    /\ arg' = IF watch THEN a ELSE arg
    /\ pre' = IF watch THEN Self ELSE pre

AppendStep(r, watch) ==
    PublicCall("append", append(Self, r), <<>>, [data |-> r], watch)

ConcatStep(rs, watch) ==
    PublicCall("concat", concat(Self, rs), <<>>, [data |-> rs], watch)

InsertStep(i, r, o, watch) ==
    PublicCall("insert", insert(Self, i, r, o), <<>>,
               [index |-> i, series |-> r, orient |-> o], watch)

InsertManyStep(i, rs, o, watch) ==
    PublicCall("insert_many", insert_many(Self, i, rs, o), <<>>,
               [index |-> i, dataframe |-> rs, orient |-> o], watch)

TruncateStep(watch) == PublicCall("truncate", truncate(Self), <<>>, <<>>, watch)

TransposeStep(watch) == PublicCall("transpose", transpose(Self), <<>>, <<>>, watch)

DeleteStep(i, o, overflow_checks, watch) ==
    PublicCall("delete", delete(Self, i, o, overflow_checks), <<>>,
               [index |-> i, orient |-> o, overflow_checks |-> overflow_checks], watch)

DeleteManyStep(ps, o, overflow_checks, watch) ==
    PublicCall("delete_many", delete_many(Self, ps, o, overflow_checks), <<>>,
               [indices |-> ps, orient |-> o, overflow_checks |-> overflow_checks],
               watch)

RenameColumnStep(i, n, watch) ==
    PublicCall("rename_column", rename_column(Self, i, n), <<>>,
               [idx |-> i, name |-> n], watch)

RenameColumnsStep(ns, watch) ==
    PublicCall("rename_columns", rename_columns(Self, ns), <<>>, [names |-> ns], watch)

ReplaceIndexStep(i, v, watch) ==
    PublicCall("replace_index", replace_index(Self, i, v), <<>>,
               [idx |-> i, data |-> v], watch)

ReplaceIndicesStep(vs, watch) ==
    PublicCall("replace_indices", replace_indices(Self, vs), <<>>,
               [indices |-> vs], watch)

\* the reads leave the Dataframe as it is
IlocStep(i, j, watch) ==
    PublicCall("iloc", Self, iloc(Self, i, j), [i |-> i, j |-> j], watch)

LocStep(i, j, watch) ==
    PublicCall("loc", [Self EXCEPT !.panic = loc(Self, i, j).panic],
               loc(Self, i, j).ret, [i |-> i, j |-> j], watch)

\* the conversion takes the Dataframe: nothing can be called after it
IntoDFStep == PublicCall("into", Self, DF_from(Self), <<>>, TRUE)

CallAppend == \E r \in ArgRecords, watch \in BOOLEAN : AppendStep(r, watch)

CallConcat == \E rs \in ArgBatches, watch \in BOOLEAN : ConcatStep(rs, watch)

CallInsert ==
    \E i \in ArgPositions, r \in ArgRecords, o \in Orientations, watch \in BOOLEAN :
        InsertStep(i, r, o, watch)

CallInsertMany ==
    \E i \in ArgPositions, rs \in ArgBatches, o \in Axes, watch \in BOOLEAN :
        InsertManyStep(i, rs, o, watch)

CallTruncate == \E watch \in BOOLEAN : TruncateStep(watch)

CallTranspose == \E watch \in BOOLEAN : TransposeStep(watch)

CallDelete ==
    \E i \in ArgPositions, o \in Orientations, overflow_checks \in BOOLEAN,
       watch \in BOOLEAN :
        DeleteStep(i, o, overflow_checks, watch)

CallDeleteMany ==
    \E ps \in ArgPositionLists, o \in Axes, overflow_checks \in BOOLEAN,
       watch \in BOOLEAN :
        DeleteManyStep(ps, o, overflow_checks, watch)

CallRenameColumn ==
    \E i \in ArgPositions, watch \in BOOLEAN : RenameColumnStep(i, "n", watch)

CallRenameColumns ==
    \E ns \in ArgNameLists, watch \in BOOLEAN : RenameColumnsStep(ns, watch)

CallReplaceIndex ==
    \E i \in ArgPositions, watch \in BOOLEAN :
        ReplaceIndexStep(i, StringCell("k"), watch)

CallReplaceIndices ==
    \E vs \in ArgLabelLists, watch \in BOOLEAN : ReplaceIndicesStep(vs, watch)

CallIloc == \E i, j \in ArgPositions, watch \in BOOLEAN : IlocStep(i, j, watch)

CallLoc == \E i \in ArgLabels, j \in ArgNames, watch \in BOOLEAN : LocStep(i, j, watch)

CallIntoDF == IntoDFStep

Next ==
    \/ BuildNew
    \/ BuildFrom2dVec
    \/ CallAppend
    \/ CallConcat
    \/ CallInsert
    \/ CallInsertMany
    \/ CallTruncate
    \/ CallTranspose
    \/ CallDelete
    \/ CallDeleteMany
    \/ CallRenameColumn
    \/ CallRenameColumns
    \/ CallReplaceIndex
    \/ CallReplaceIndices
    \/ CallIloc
    \/ CallLoc
    \/ CallIntoDF

Spec == Init /\ [][Next]_vars

-----------------------------------------------------------------------------
(* What the specification expects of validation *)

\* a cell checked against a declared type: kept when it has the type, else missing
Validated(cell, col_type) == IF cell.t = col_type THEN cell ELSE NoneCell

\* a record checked against a schema: cut or padded to the schema's width
ValidatedRow(rec, cols) ==
    [i \in 1..Len(cols) |->
        IF i <= Len(rec) THEN Validated(rec[i], cols[i].col_type) ELSE NoneCell]

AutoIds(n) == [k \in 1..n |-> Id(k - 1)]

DoneNew(o) == pc = "end" /\ op = "new" /\ arg.orient = o

DoneFrom(o) == pc = "end" /\ op = "from_2d_vec" /\ arg.orient = o

-----------------------------------------------------------------------------
(* Schema-inferring Horizontal construction *)

\* C5: for an input of at least two records (the first one not empty, or there
\* is nothing to construct), new(records, Horizontal) takes the column names from
\* record 0 and the column types from the cells of record 1, stores records
\* 1..n-1 validated against that schema, has size.0 = n-1 and labels
\* Id(0)..Id(n-2).
C5_HorizontalNew ==
    (DoneNew(Horizontal) /\ Len(arg.data) >= 2 /\ Len(arg.data[1]) >= 1) =>
        LET recs == arg.data
            n == Len(recs)
        IN  /\ ~fault
            /\ [k \in 1..Len(columns) |-> columns[k].name]
                    = [k \in 1..Len(recs[1]) |-> to_string(recs[1][k])]
            /\ \A k \in 1..Len(columns) :
                    k <= Len(recs[2]) => columns[k].col_type = recs[2][k].t
            /\ data = [k \in 1..(n - 1) |-> ValidatedRow(recs[k + 1], columns)]
            /\ size[1] = n - 1
            /\ indices = AutoIds(n - 1)

\* C6: in schema-inferring Horizontal construction there are exactly as many
\* columns as the header record has names, whether the second record is longer or
\* shorter than the header.
C6_ColumnsMatchHeader ==
    (DoneNew(Horizontal) /\ Len(arg.data) >= 2)
        => Len(columns) = Len(arg.data[1])

-----------------------------------------------------------------------------
(* Schema-inferring Vertical construction *)

\* C7: for an input whose first record has L >= 2 cells, new(records, Vertical)
\* has one column per outer record (named by its first cell, typed by its second
\* cell, for the records that have both), one data record per outer record holding
\* its cells 1..L-1 validated against that type, cut or padded to L-1 cells,
\* size (number of records, L-1) and labels Id(0)..Id(L-2).
C7_VerticalNew ==
    (DoneNew(Vertical) /\ Len(arg.data) >= 1 /\ Len(arg.data[1]) >= 2) =>
        LET recs == arg.data
            L == Len(recs[1])
        IN  /\ ~fault
            /\ Len(columns) = Len(recs)
            /\ \A k \in 1..Len(recs) :
                    Len(recs[k]) >= 2 =>
                        columns[k] = DataframeColumn(to_string(recs[k][1]), recs[k][2].t)
            /\ Len(data) = Len(recs)
            /\ \A k \in 1..Len(recs) :
                    data[k] = [i \in 1..(L - 1) |->
                                  IF i + 1 <= Len(recs[k])
                                  THEN Validated(recs[k][i + 1], columns[k].col_type)
                                  ELSE NoneCell]
            /\ size = <<Len(recs), L - 1>>
            /\ indices = AutoIds(L - 1)

-----------------------------------------------------------------------------
(* Schema-given construction *)

\* what C8 states of the result: one record per input record, each as wide as
\* the schema cols, missing tags where the input record had no cell
CutAndPadded(recs, cols) ==
    /\ ~fault
    /\ Len(data) = Len(recs)
    /\ \A k \in 1..Len(recs) :
        /\ Len(data[k]) = Len(cols)
        /\ \A i \in 1..Len(cols) :
            IF i > Len(recs[k]) THEN data[k][i] = NoneCell
            ELSE data[k][i] \in {recs[k][i], NoneCell}

\* C8 as stated: from_2d_vec(records, Horizontal, columns) with a non-empty schema
\* gives one output record per input record, each of length columns.len(), with
\* the cells beyond the schema dropped and the absent positions missing.
C8_AnyRecords ==
    (DoneFrom(Horizontal) /\ Len(arg.columns) >= 1)
        => CutAndPadded(arg.data, arg.columns)

\* C8 amended: the same, when the first input record is not empty.
C8_CutAndPad ==
    (DoneFrom(Horizontal) /\ Len(arg.columns) >= 1 /\ ~is_empty(arg.data))
        => CutAndPadded(arg.data, arg.columns)

\* one record longer than the schema and one shorter
C8_Witness ==
    /\ DoneFrom(Horizontal)
    /\ Len(arg.columns) = 2
    /\ Len(arg.data) = 2
    /\ Len(arg.data[1]) = 3
    /\ Len(arg.data[2]) = 1
    /\ Len(data[1]) = 2
    /\ data[2][2] = NoneCell

\* C10: from_2d_vec(records, Vertical, columns) with non-empty records and schema
\* satisfies the Vertical invariant: data.len() = size.0 = columns.len() and every
\* record has length size.1 = indices.len().
C10_VerticalGiven ==
    (DoneFrom(Vertical) /\ Len(arg.columns) >= 1 /\ ~is_empty(arg.data)) =>
        /\ ~fault
        /\ Len(data) = size[1]
        /\ size[1] = Len(columns)
        /\ size[2] = Len(indices)
        /\ \A k \in 1..Len(data) : Len(data[k]) = size[2]

-----------------------------------------------------------------------------
(* Invariants of the constructed Dataframe *)

Constructed == pc # "input"

\* C1: whenever the orientation is Horizontal, data.len() = size.0 =
\* indices.len() and every record has length size.1 = columns.len().
C1_HorizontalInvariant ==
    (Constructed /\ data_orientation = Horizontal) =>
        /\ Len(data) = size[1]
        /\ size[1] = Len(indices)
        /\ size[2] = Len(columns)
        /\ \A k \in 1..Len(data) : Len(data[k]) = size[2]

\* C2: whenever the orientation is Vertical, data.len() = size.0 =
\* columns.len() and every record has length size.1 = indices.len().
C2_VerticalInvariant ==
    (Constructed /\ data_orientation = Vertical) =>
        /\ Len(data) = size[1]
        /\ size[1] = Len(columns)
        /\ size[2] = Len(indices)
        /\ \A k \in 1..Len(data) : Len(data[k]) = size[2]

\* the cell is the missing tag or has the declared type of the column
Conforms(cell, column) == cell.t \in {"None", column.col_type}

\* C3: in a Horizontal or Vertical Dataframe every stored cell that a column
\* governs (columns[inner position] for Horizontal, columns[outer position] for
\* Vertical) is the missing tag or has the type that column declares.
C3_TypeConformance ==
    /\ (Constructed /\ data_orientation = Horizontal) =>
            \A k \in 1..Len(data) : \A i \in 1..Len(data[k]) :
                i <= Len(columns) => Conforms(data[k][i], columns[i])
    /\ (Constructed /\ data_orientation = Vertical) =>
            \A k \in 1..Len(data) : \A i \in 1..Len(data[k]) :
                k <= Len(columns) => Conforms(data[k][i], columns[k])

\* C4: no public call, whatever its arguments, ends in a panic.
C4_NoFault == ~fault

-----------------------------------------------------------------------------
(* Reference-mode validation *)

EndOf(name) == pc = "end" /\ op = name /\ ~fault

\* the cell stored for the input cell of rec at 1-based position i is the one
\* the type-reject policy gives under the column: the input cell itself when
\* its type is the declared one, the missing tag otherwise
StoredByPolicy(stored, rec, i, column) ==
    i <= Len(rec) => stored = Validated(rec[i], column.col_type)

\* C9: in Reference-mode validation (from_2d_vec, Horizontal new, append and
\* insert of a row, Vertical insert of a row) the cell stored for an input cell
\* at schema position i is the input cell unchanged when its DataType equals
\* columns[i].col_type and the missing tag otherwise.
C9_TypeReject ==
    /\ (EndOf("from_2d_vec") /\ data_orientation = Horizontal) =>
            \A k \in 1..Len(data) : \A i \in 1..Len(data[k]) :
                StoredByPolicy(data[k][i], arg.data[k], i, columns[i])
    /\ (EndOf("from_2d_vec") /\ data_orientation = Vertical) =>
            \A k \in 1..Len(data) : \A i \in 1..Len(data[k]) :
                StoredByPolicy(data[k][i], arg.data[k], i, columns[k])
    /\ (EndOf("new") /\ data_orientation = Horizontal) =>
            \A k \in 1..Len(data) : \A i \in 1..Len(data[k]) :
                StoredByPolicy(data[k][i], arg.data[k + 1], i, columns[i])
    /\ (EndOf("append") /\ pre.data_orientation = Horizontal) =>
            /\ Len(data) = Len(pre.data) + 1
            /\ \A i \in 1..Len(data[Len(data)]) :
                StoredByPolicy(data[Len(data)][i], arg.data, i, pre.columns[i])
    /\ (EndOf("insert") /\ pre.data_orientation = Horizontal
            /\ arg.orient = Horizontal /\ arg.series # <<>>) =>
            /\ Len(data) = Len(pre.data) + 1
            /\ \A i \in 1..Len(data[arg.index + 1]) :
                StoredByPolicy(data[arg.index + 1][i], arg.series, i, pre.columns[i])
    /\ (EndOf("insert") /\ pre.data_orientation = Vertical
            /\ arg.orient = Vertical /\ arg.series # <<>>) =>
            \A k \in 1..Len(data) :
                /\ Len(data[k]) = Len(pre.data[k]) + 1
                /\ StoredByPolicy(data[k][arg.index + 1], arg.series, k, pre.columns[k])

\* a row appended to a Horizontal Dataframe of two columns, one cell of it kept
\* and the other rejected
C9_Witness ==
    /\ EndOf("append")
    /\ pre.data_orientation = Horizontal
    /\ Len(pre.columns) = 2
    /\ Len(arg.data) = 2
    /\ \E i, j \in 1..2 :
        /\ data[Len(data)][i] = NoneCell
        /\ data[Len(data)][j] = arg.data[j]

-----------------------------------------------------------------------------
(* Empty input *)

\* the Dataframe holds nothing: no data, no columns, no labels, size (0,0)
HoldsNothing ==
    /\ ~fault
    /\ data = <<>>
    /\ columns = <<>>
    /\ indices = <<>>
    /\ size = <<0, 0>>

\* the records are none, or the first of them is empty
NoRecords(recs) == Len(recs) = 0 \/ Len(recs[1]) = 0

\* C11: new with no records or with an empty first record, and from_2d_vec with
\* such records or with an empty column list, return a Dataframe with empty data,
\* empty columns, empty indices and size (0,0), whatever orientation is asked.
C11_EmptyInput ==
    /\ (pc = "end" /\ op = "new" /\ NoRecords(arg.data)) => HoldsNothing
    /\ (pc = "end" /\ op = "from_2d_vec"
            /\ (NoRecords(arg.data) \/ Len(arg.columns) = 0)) => HoldsNothing

\* from_2d_vec was given a schema and an empty first record followed by a
\* record with cells
C11_Witness ==
    /\ pc = "end"
    /\ op = "from_2d_vec"
    /\ Len(arg.columns) >= 1
    /\ Len(arg.data) >= 2
    /\ Len(arg.data[1]) = 0
    /\ Len(arg.data[2]) >= 1
    /\ arg.orient = Horizontal
    /\ data = <<>>

-----------------------------------------------------------------------------
(* append *)

\* s continues old: the first Len(old) elements of s are old
Extends(s, old) == Len(s) >= Len(old) /\ SubSeq(s, 1, Len(old)) = old

\* C12: append on a Horizontal Dataframe adds one record at the end of data,
\* of length columns.len() and validated against the columns; size.0 and
\* indices.len() grow by one; columns, size.1, the orientation and the records
\* and labels stored before are unchanged.
C12_HorizontalAppend ==
    (EndOf("append") /\ pre.data_orientation = Horizontal) =>
        /\ Len(data) = Len(pre.data) + 1
        /\ Extends(data, pre.data)
        /\ data[Len(data)] = ValidatedRow(arg.data, pre.columns)
        /\ Len(data[Len(data)]) = Len(columns)
        /\ size[1] = pre.size[1] + 1
        /\ Len(indices) = Len(pre.indices) + 1
        /\ Extends(indices, pre.indices)
        /\ columns = pre.columns
        /\ size[2] = pre.size[2]
        /\ data_orientation = Horizontal

\* C13: append on a Vertical Dataframe adds one column: data.len(),
\* columns.len() and one component of size grow by one; no label is pushed:
\* indices and the other component of size are unchanged.
C13_VerticalAppend ==
    (EndOf("append") /\ pre.data_orientation = Vertical) =>
        /\ Len(data) = Len(pre.data) + 1
        /\ Len(columns) = Len(pre.columns) + 1
        /\ Extends(columns, pre.columns)
        /\ \/ size = <<pre.size[1], pre.size[2] + 1>>
           \/ size = <<pre.size[1] + 1, pre.size[2]>>
        /\ indices = pre.indices

-----------------------------------------------------------------------------
(* concat *)

RECURSIVE AppendedInOrder(_, _, _)
\* the Dataframe after append(rows[1]), ..., append(rows[k]) called in turn on df
AppendedInOrder(df, rows, k) ==
    IF k = 0 THEN df ELSE append(AppendedInOrder(df, rows, k - 1), rows[k])

\* C14: concat of the records r0..rk-1 on a Horizontal or Vertical Dataframe
\* leaves exactly the state that append(r0), ..., append(rk-1) called in that
\* order leave; on a Raw Dataframe the records are added to the end of data
\* unchanged and in order.
C14_ConcatIsRepeatedAppend ==
    /\ (EndOf("concat") /\ pre.data_orientation \in Axes) =>
            Self = AppendedInOrder(pre, arg.data, Len(arg.data))
    /\ (EndOf("concat") /\ pre.data_orientation = Raw) =>
            /\ data = pre.data \o arg.data
            /\ columns = pre.columns
            /\ indices = pre.indices
            /\ size = pre.size
            /\ data_orientation = Raw

\* two different records were concatenated to a Horizontal Dataframe that has
\* a column
C14_Witness ==
    /\ EndOf("concat")
    /\ pre.data_orientation = Horizontal
    /\ pre.size[2] >= 1
    /\ Len(arg.data) = 2
    /\ arg.data[1] # arg.data[2]
    /\ Len(arg.data[1]) >= 1
    /\ Len(data) = Len(pre.data) + 2
    /\ data[Len(data)] # data[Len(data) - 1]

-----------------------------------------------------------------------------
(* transpose *)

\* df has size (m,n) with data of m records of length n
Rectangular(df) ==
    /\ df.size[1] >= 0
    /\ df.size[2] >= 0
    /\ Len(df.data) = df.size[1]
    /\ \A i \in 1..Len(df.data) : Len(df.data[i]) = df.size[2]

Flipped(o) == IF o = Horizontal THEN Vertical ELSE Horizontal

\* C15: on a Horizontal or Vertical Dataframe of size (m,n) whose data is m
\* records of length n, transpose leaves n records of length m with
\* data[j][i] the old data[i][j], size (n,m), the other orientation, and the
\* columns and indices it had.
C15_TransposeEffect ==
    (pc = "end" /\ op = "transpose" /\ pre.data_orientation \in Axes
        /\ Rectangular(pre)) =>
        /\ ~fault
        /\ Len(data) = pre.size[2]
        /\ \A j \in 1..Len(data) :
                /\ Len(data[j]) = pre.size[1]
                /\ \A i \in 1..pre.size[1] : data[j][i] = pre.data[i][j]
        /\ size = <<pre.size[2], pre.size[1]>>
        /\ data_orientation = Flipped(pre.data_orientation)
        /\ columns = pre.columns
        /\ indices = pre.indices

\* a Horizontal Dataframe of two different records of one cell was transposed
C15_Witness ==
    /\ EndOf("transpose")
    /\ pre.data_orientation = Horizontal
    /\ Rectangular(pre)
    /\ pre.size = <<2, 1>>
    /\ pre.data[1] # pre.data[2]
    /\ data = <<<<pre.data[1][1], pre.data[2][1]>>>>
    /\ data_orientation = Vertical

\* C16: for a Horizontal or Vertical Dataframe reached from the constructors,
\* transpose applied twice restores data, size and orientation.
C16_TransposeInvolution ==
    (pc = "end" /\ op = "transpose" /\ pre.data_orientation \in Axes) =>
        /\ ~fault
        /\ ~transpose(Self).panic
        /\ transpose(Self).data = pre.data
        /\ transpose(Self).size = pre.size
        /\ transpose(Self).data_orientation = pre.data_orientation

-----------------------------------------------------------------------------
(* truncate *)

\* C17: truncate empties data and indices and sets size to (0,0); columns and
\* orientation stay; a second truncate leaves the state of the first.
C17_Truncate ==
    (pc = "end" /\ op = "truncate") =>
        /\ ~fault
        /\ data = <<>>
        /\ indices = <<>>
        /\ size = <<0, 0>>
        /\ columns = pre.columns
        /\ data_orientation = pre.data_orientation
        /\ truncate(Self) = Self

\* a Dataframe with records, labels and columns was truncated
C17_Witness ==
    /\ EndOf("truncate")
    /\ Len(pre.data) >= 2
    /\ Len(pre.indices) >= 1
    /\ Len(columns) >= 1
    /\ pre.size[1] >= 1
    /\ pre.size[2] >= 1
    /\ data = <<>>

-----------------------------------------------------------------------------
(* insert and delete *)

\* the size component that counts the series along an axis
AxisLength(df, axis) == IF axis = Horizontal THEN df.size[1] ELSE df.size[2]

\* the cells of the series given to the watched insert are all in the
\* Dataframe, unchanged, at position arg.index of the axis arg.orient; in
\* Dynamic mode the first cell of the series is the column name
InsertedAsGiven ==
    LET p == arg.index + 1
        named == pre.data_orientation # arg.orient
        cells == IF named THEN Tail(arg.series) ELSE arg.series
    IN  IF arg.orient = Horizontal
        THEN /\ Len(data) = Len(pre.data) + 1
             /\ data[p] = cells
        ELSE /\ Len(cells) = Len(data)
             /\ \A i \in 1..Len(data) :
                    /\ Len(data[i]) = Len(pre.data[i]) + 1
                    /\ data[i][p] = cells[i]

\* the watched call was an insert of a series along an axis of a Horizontal
\* or Vertical Dataframe, at a position not beyond the length of the axis
InsertedOnAxis ==
    /\ EndOf("insert")
    /\ pre.data_orientation \in Axes
    /\ arg.orient \in Axes
    /\ Len(arg.series) > 0
    /\ arg.index <= AxisLength(pre, arg.orient)

\* C18: on a Horizontal or Vertical Dataframe, insert(p, record, axis) with p
\* not beyond the length of the axis and a record stored as given, followed by
\* delete(p, axis), restores the size and the data from before the insert.
C18_InsertThenDelete ==
    (InsertedOnAxis /\ InsertedAsGiven) =>
        \A overflow_checks \in BOOLEAN :
            /\ ~delete(Self, arg.index, arg.orient, overflow_checks).panic
            /\ delete(Self, arg.index, arg.orient, overflow_checks).data = pre.data
            /\ delete(Self, arg.index, arg.orient, overflow_checks).size = pre.size

\* the watched call was delete(position, axis) along an axis
DeletedOnAxis == pc = "end" /\ op = "delete" /\ arg.orient \in Axes

\* C19: delete(position, axis) with position greater than the size component
\* of the axis returns with data, columns, indices, size and orientation as
\* they were.
C19_DeleteGuard ==
    (DeletedOnAxis /\ AxisLength(pre, arg.orient) >= 0
        /\ arg.index > AxisLength(pre, arg.orient)) =>
        /\ ~fault
        /\ Self = pre

\* delete(1, Horizontal) on a Dataframe that holds two records and counts none
C19_Witness ==
    /\ DeletedOnAxis
    /\ arg.orient = Horizontal
    /\ arg.index = 1
    /\ pre.size[1] = 0
    /\ Len(pre.data) >= 2
    /\ data = pre.data
    /\ ~fault

\* the series at the position of the watched delete was taken out of data and
\* the size component of the axis counted down
RemovalDone ==
    IF arg.orient = Horizontal
    THEN /\ Len(pre.data) > arg.index
         /\ data = VecRemove(pre.data, arg.index)
         /\ size = <<pre.size[1] - 1, pre.size[2]>>
    ELSE /\ Len(data) = Len(pre.data)
         /\ \A i \in 1..Len(data) :
                /\ Len(pre.data[i]) > arg.index
                /\ data[i] = VecRemove(pre.data[i], arg.index)
         /\ size = <<pre.size[1], pre.size[2] - 1>>

\* C20: delete(position, axis) with position equal to the size component of
\* the axis is not turned away by the guard: the call goes on to the removal
\* at that position, which either panics or takes the series out.
C20_DeleteBoundary ==
    (DeletedOnAxis /\ arg.index = AxisLength(pre, arg.orient)) =>
        \/ fault
        \/ RemovalDone /\ Self # pre

\* delete at position 1 on a Dataframe of size (1,1) that holds one record of
\* one cell: the removal panics
C20_Witness ==
    /\ DeletedOnAxis
    /\ arg.index = 1
    /\ pre.size = <<1, 1>>
    /\ Rectangular(pre)
    /\ Len(pre.indices) = 1
    /\ Len(pre.columns) = 1
    /\ fault

-----------------------------------------------------------------------------
(* delete_many *)

\* the 0-based positions named in a list
PositionsOf(list) == {list[k] : k \in 1..Len(list)}

RECURSIVE KeptFrom(_, _, _)
\* the elements of s from 1-based place k on whose 0-based position is not in
\* ps, in their order
KeptFrom(s, ps, k) ==
    IF k > Len(s) THEN <<>>
    ELSE (IF (k - 1) \in ps THEN <<>> ELSE <<s[k]>>) \o KeptFrom(s, ps, k + 1)

\* every position of the watched delete_many is a row of the Dataframe before
\* the call
RowsInRange ==
    \A p \in PositionsOf(arg.indices) :
        /\ p < pre.size[1]
        /\ p < Len(pre.data)
        /\ p < Len(pre.indices)

-----------------------------------------------------------------------------
(* insert along the other axis *)

\* the cell of the series that validation stores in outer record i when the
\* series is inserted along the Vertical axis: a new column of a Horizontal
\* Dataframe is named by its first cell and typed by its second, a new row of a
\* Vertical Dataframe is checked against the column of each record
CrossCell(df, series, i) ==
    IF df.data_orientation = Horizontal
    THEN IF i + 1 <= Len(series)
         THEN Validated(series[i + 1], DataTypeOf(series[2]))
         ELSE NoneCell
    ELSE IF i <= Len(series)
         THEN Validated(series[i], df.columns[i].col_type)
         ELSE NoneCell

\* df meets the structural invariant of its orientation: data is size.0
\* records of length size.1; a Horizontal Dataframe has a label per record and
\* a column per cell of a record, a Vertical one a column per record and a
\* label per cell of a record
Structured(df) ==
    /\ Rectangular(df)
    /\ IF df.data_orientation = Horizontal
       THEN Len(df.indices) = df.size[1] /\ Len(df.columns) = df.size[2]
       ELSE Len(df.columns) = df.size[1] /\ Len(df.indices) = df.size[2]

\* the watched call inserted a non-empty series along the Vertical axis of a
\* Horizontal or Vertical Dataframe at a position not beyond that axis
InsertedAcross ==
    /\ pc = "end"
    /\ op = "insert"
    /\ pre.data_orientation \in Axes
    /\ Structured(pre)
    /\ arg.orient = Vertical
    /\ Len(arg.series) > 0
    /\ arg.index <= pre.size[2]

C23_InsertEmpty ==
    (pc = "end" /\ op = "insert" /\ Len(arg.series) = 0) =>
        /\ ~fault
        /\ Self = pre

\* an empty record was inserted along the row axis at position 1 of a
\* Horizontal Dataframe with columns and no rows
C23_Witness ==
    /\ EndOf("insert")
    /\ Len(arg.series) = 0
    /\ arg.index = 1
    /\ arg.orient = Horizontal
    /\ pre.data_orientation = Horizontal
    /\ Len(pre.data) = 0
    /\ Len(pre.columns) >= 1
    /\ Self = pre

-----------------------------------------------------------------------------
(* insert_many *)

RECURSIVE InsertedInOrder(_, _, _, _, _)
\* the Dataframe after insert(index, rows[1], orient), insert(index + 1,
\* rows[2], orient), ... up to rows[k], called in turn on df
InsertedInOrder(df, index, rows, orient, k) ==
    IF k = 0 THEN df
    ELSE insert(InsertedInOrder(df, index, rows, orient, k - 1),
                index + k - 1, rows[k], orient)

\* the record that validation stores when the series is inserted into data
\* itself (axis Horizontal): a row of a Horizontal Dataframe is checked against
\* the columns, a column of a Vertical one is named by its first cell and typed
\* by its second
OuterStored(df, series) ==
    IF df.data_orientation = Horizontal
    THEN ValidatedRow(series, df.columns)
    ELSE [c \in 1..df.size[2] |->
            IF c + 1 <= Len(series)
            THEN Validated(series[c + 1], DataTypeOf(series[2]))
            ELSE NoneCell]

\* s with the sequence block put in after its first index elements
WithBlockAt(s, index, block) ==
    SubSeq(s, 1, index) \o block \o SubSeq(s, index + 1, Len(s))

\* the watched call was insert_many of non-empty records at a position not
\* beyond the chosen axis of a Horizontal or Vertical Dataframe
InsertedMany ==
    /\ pc = "end"
    /\ op = "insert_many"
    /\ pre.data_orientation \in Axes
    /\ Structured(pre)
    /\ \A i \in 1..Len(arg.dataframe) : Len(arg.dataframe[i]) > 0
    /\ arg.index <= AxisLength(pre, arg.orient)

-----------------------------------------------------------------------------
(* iloc and loc *)

\* x is an element of the sequence s
Occurs(s, x) == \E k \in 1..Len(s) : s[k] = x

\* the names of the columns, in order
Names == [k \in 1..Len(columns) |-> columns[k].name]

\* C25: iloc(i, j) returns absent when i or j is out of range of data, and
\* loc(label, name) returns absent when the label is not in indices or the
\* name is not a column name, in every orientation, without a fault.
C25_AbsentReads ==
    /\ (pc = "end" /\ op = "iloc"
            /\ (arg.i >= Len(data) \/ arg.j >= Len(data[arg.i + 1]))) =>
            ~fault /\ ret = <<>>
    /\ (pc = "end" /\ op = "loc"
            /\ (~Occurs(indices, arg.i) \/ ~Occurs(Names, arg.j))) =>
            ~fault /\ ret = <<>>

\* the 0-based position of the first element of s equal to x, which occurs
FirstAt(s, x) == (CHOOSE k \in 1..Len(s) : s[k] = x /\ \A m \in 1..(k - 1) : s[m] # x) - 1

\* Option of the cell of data at 0-based outer position a and inner position b
CellAt(a, b) ==
    IF a < Len(data) /\ b < Len(data[a + 1]) THEN <<data[a + 1][b + 1]>> ELSE <<>>

\* the watched call was loc on a Dataframe of orientation o that meets its
\* structural invariant, with a label that is in indices and a name that is a
\* column name
Located(o) ==
    /\ pc = "end"
    /\ op = "loc"
    /\ data_orientation = o
    /\ Structured(Self)
    /\ Occurs(indices, arg.i)
    /\ Occurs(Names, arg.j)

-----------------------------------------------------------------------------
(* rename and replace *)

\* data, size and orientation are those before the watched call
ContentKept ==
    /\ data = pre.data
    /\ size = pre.size
    /\ data_orientation = pre.data_orientation

\* C27: rename_column(pos, name) changes only the name of columns[pos] and
\* replace_index(pos, value) changes only indices[pos]; with pos out of range
\* the whole state is unchanged; data, size, orientation and the lengths of
\* columns and indices never change.
C27_SingleOverwrite ==
    /\ (pc = "end" /\ op = "rename_column") =>
            /\ ~fault
            /\ ContentKept
            /\ indices = pre.indices
            /\ Len(columns) = Len(pre.columns)
            /\ \A k \in 1..Len(columns) :
                    /\ columns[k].col_type = pre.columns[k].col_type
                    /\ columns[k].name =
                          IF k = arg.idx + 1 THEN arg.name ELSE pre.columns[k].name
    /\ (pc = "end" /\ op = "replace_index") =>
            /\ ~fault
            /\ ContentKept
            /\ columns = pre.columns
            /\ Len(indices) = Len(pre.indices)
            /\ \A k \in 1..Len(indices) :
                    indices[k] = IF k = arg.idx + 1 THEN arg.data ELSE pre.indices[k]

\* the second of two columns was renamed and the first kept its name
C27_Witness ==
    /\ EndOf("rename_column")
    /\ arg.idx = 1
    /\ Len(pre.columns) = 2
    /\ pre.columns[2].name # arg.name
    /\ columns[2].name = arg.name
    /\ columns[1] = pre.columns[1]
    /\ columns[1].name # arg.name

\* C28: rename_columns(names) overwrites the names of the first
\* min(columns.len(), names.len()) columns by position and replace_indices(values)
\* the first min(indices.len(), values.len()) labels; the other entries keep
\* their values, the other inputs are ignored, and the lengths of columns and
\* indices do not change.
C28_BatchOverwrite ==
    /\ (pc = "end" /\ op = "rename_columns") =>
            /\ ~fault
            /\ ContentKept
            /\ indices = pre.indices
            /\ Len(columns) = Len(pre.columns)
            /\ \A k \in 1..Len(columns) :
                    /\ columns[k].col_type = pre.columns[k].col_type
                    /\ columns[k].name =
                          IF k <= Min(Len(pre.columns), Len(arg.names))
                          THEN arg.names[k] ELSE pre.columns[k].name
    /\ (pc = "end" /\ op = "replace_indices") =>
            /\ ~fault
            /\ ContentKept
            /\ columns = pre.columns
            /\ Len(indices) = Len(pre.indices)
            /\ \A k \in 1..Len(indices) :
                    indices[k] =
                        IF k <= Min(Len(pre.indices), Len(arg.indices))
                        THEN arg.indices[k] ELSE pre.indices[k]

\* one name was given for two columns: the first column has it and the second
\* is as it was
C28_Witness ==
    /\ EndOf("rename_columns")
    /\ Len(arg.names) = 1
    /\ Len(pre.columns) = 2
    /\ pre.columns[1].name # arg.names[1]
    /\ columns[1].name = arg.names[1]
    /\ columns[2] = pre.columns[2]

-----------------------------------------------------------------------------
(* Conversion to the raw form *)

\* the record rec with the cell x put in front
Fronted(x, rec) == <<x>> \o rec

\* C29: the raw form of a Horizontal Dataframe is one header record of the
\* column names, in column order, followed by the data records in order; of a
\* Vertical Dataframe, each data record i with the name of column i as its
\* first cell; of a Raw Dataframe, data unchanged.
C29_RawForm ==
    (pc = "end" /\ op = "into") =>
        /\ ~fault
        /\ data_orientation = Horizontal =>
                /\ Len(ret) = Len(data) + 1
                /\ Len(ret[1]) = Len(columns)
                /\ \A k \in 1..Len(columns) : ret[1][k] = StringCell(columns[k].name)
                /\ \A i \in 1..Len(data) : ret[i + 1] = data[i]
        /\ data_orientation = Vertical =>
                /\ Len(ret) = Len(data)
                /\ \A i \in 1..Len(data) :
                        /\ i <= Len(columns)
                        /\ ret[i] = Fronted(StringCell(columns[i].name), data[i])
        /\ data_orientation = Raw => ret = data

\* a Vertical Dataframe of two columns with different names and a row was
\* converted: each record of the raw form starts with the name of its column
C29_Witness ==
    /\ pc = "end"
    /\ op = "into"
    /\ ~fault
    /\ data_orientation = Vertical
    /\ Len(data) = 2
    /\ Len(columns) = 2
    /\ Len(data[1]) >= 1
    /\ columns[1].name # columns[2].name
    /\ ret[1][1] = StringCell(columns[1].name)
    /\ ret[2][1] = StringCell(columns[2].name)
    /\ ret[1][2] = data[1][1]

\* the watched call converted a Horizontal or Vertical Dataframe that meets its
\* structural invariant and has rows and columns
ConvertedFull ==
    /\ pc = "end"
    /\ op = "into"
    /\ ~fault
    /\ data_orientation \in Axes
    /\ Structured(Self)
    /\ size[1] > 0
    /\ size[2] > 0

\* the Dataframe that new makes of the raw form, asked for the same orientation
Rebuilt == Dataframe_new(ret, data_orientation)

\* C30 as stated: for a non-empty Horizontal or Vertical Dataframe that meets
\* its structural invariant, new of its raw form with its orientation has the
\* same columns (names and types), the same data and the same size.
C30_RoundTrip ==
    ConvertedFull =>
        /\ ~Rebuilt.panic
        /\ Rebuilt.columns = columns
        /\ Rebuilt.data = data
        /\ Rebuilt.size = size

\* the column that types the cell at outer position i and inner position k
ColumnOf(i, k) == IF data_orientation = Horizontal THEN columns[k] ELSE columns[i]

\* every cell is of the type of its column or is the missing tag
AllConform ==
    \A i \in 1..Len(data) : \A k \in 1..Len(data[i]) :
        Conforms(data[i][k], ColumnOf(i, k))

\* the cells new infers the types from hold the types of their columns: the
\* first record of a Horizontal Dataframe, the first cell of every record of a
\* Vertical one
TypesShown ==
    IF data_orientation = Horizontal
    THEN \A k \in 1..Len(data[1]) : DataTypeOf(data[1][k]) = columns[k].col_type
    ELSE \A i \in 1..Len(data) : DataTypeOf(data[i][1]) = columns[i].col_type

\* C30, amended: the same, for a Dataframe whose cells conform to their columns
\* and whose type-giving cells (first record when Horizontal, first cell of
\* each column when Vertical) hold the column's type and not the missing tag
\* in its place.
C30_TypedRoundTrip ==
    (ConvertedFull /\ AllConform /\ TypesShown) =>
        /\ ~Rebuilt.panic
        /\ Rebuilt.columns = columns
        /\ Rebuilt.data = data
        /\ Rebuilt.size = size

\* a Horizontal Dataframe of two rows whose second row holds a missing tag
\* under a typed column was converted and rebuilt to the same data
C30_Witness ==
    /\ ConvertedFull
    /\ AllConform
    /\ TypesShown
    /\ data_orientation = Horizontal
    /\ Len(data) = 2
    /\ data[1][1] # NoneCell
    /\ data[2][1] = NoneCell
    /\ Rebuilt.data = data
    /\ Rebuilt.columns = columns


(* Raw storage *)

\* a Dataframe that holds records only: Raw, no columns, no labels, size (0, 0)
RecordsOnly(df) ==
    /\ df.data_orientation = Raw
    /\ df.columns = <<>>
    /\ df.indices = <<>>
    /\ df.size = <<0, 0>>

\* append, concat and transpose of a Raw Dataframe: the given records are added
\* unchanged at the end of data in order, transpose changes nothing, and
\* nothing else of the Dataframe moves
RawGrowth ==
    /\ (EndOf("append") /\ pre.data_orientation = Raw) =>
            Self = [pre EXCEPT !.data = Append(pre.data, arg.data)]
    /\ (EndOf("concat") /\ pre.data_orientation = Raw) =>
            Self = [pre EXCEPT !.data = pre.data \o arg.data]
    /\ (EndOf("transpose") /\ pre.data_orientation = Raw) => Self = pre

\* C31 as stated: new(records, Raw) stores whatever records it is given
\* unchanged with no columns and no labels derived, and append, concat and
\* transpose on a Raw Dataframe add the given records unchanged / change nothing.
C31_RawAsGiven ==
    /\ (EndOf("new") /\ arg.orient = Raw) => (data = arg.data /\ RecordsOnly(Self))
    /\ RawGrowth

\* C31: Raw records are never validated or reshaped: new(records, Raw) with a
\* non-empty first record stores the records unchanged with no columns and no
\* labels derived (records whose first record is empty count as empty input
\* and give the empty Dataframe); append and concat on a Raw Dataframe add the
\* given records unchanged at the end of data in order; and transpose on a Raw
\* Dataframe leaves the entire state unchanged.
C31_RawKept ==
    /\ (EndOf("new") /\ arg.orient = Raw) =>
            /\ RecordsOnly(Self)
            /\ data = IF NoRecords(arg.data) THEN <<>> ELSE arg.data
    /\ RawGrowth

\* ragged records of mixed types were stored as given by new, or a record was
\* appended to a Raw Dataframe that already holds records
C31_Witness ==
    \/ /\ EndOf("new") /\ arg.orient = Raw
       /\ Len(arg.data) >= 2
       /\ Len(arg.data[1]) # Len(arg.data[2])
       /\ data = arg.data
    \/ /\ EndOf("concat") /\ pre.data_orientation = Raw
       /\ pre.data # <<>> /\ Len(arg.data) >= 2
       /\ data = pre.data \o arg.data

(* delete across the orientation *)

\* the watched call was delete(p, axis) on a Dataframe of the given
\* orientation that meets its structural invariant, with p below the size
\* component of the axis
DeletedWithin(o, axis) ==
    /\ pc = "end"
    /\ op = "delete"
    /\ pre.data_orientation = o
    /\ Structured(pre)
    /\ arg.orient = axis
    /\ arg.index < AxisLength(pre, axis)

\* C32: on a Horizontal Dataframe, delete(p, column axis) with p < size.1
\* removes the cell at inner position p from every row and removes columns[p],
\* decrements size.1 by one, and leaves indices, the number of rows and size.0
\* unchanged.
C32_DeleteColumn ==
    DeletedWithin(Horizontal, Vertical) =>
        /\ ~fault
        /\ Len(data) = Len(pre.data)
        /\ \A i \in 1..Len(data) : data[i] = VecRemove(pre.data[i], arg.index)
        /\ columns = VecRemove(pre.columns, arg.index)
        /\ size = <<pre.size[1], pre.size[2] - 1>>
        /\ indices = pre.indices

\* C33: on a Vertical Dataframe, delete(p, outer axis) with p < size.0 removes
\* the column record data[p] together with its schema entry columns[p],
\* decrements size.0 by one, and leaves indices, the length of the remaining
\* records and size.1 unchanged.
C33_DeleteRecord ==
    DeletedWithin(Vertical, Horizontal) =>
        /\ ~fault
        /\ data = VecRemove(pre.data, arg.index)
        /\ columns = VecRemove(pre.columns, arg.index)
        /\ size = <<pre.size[1] - 1, pre.size[2]>>
        /\ indices = pre.indices

(* truncate, then append *)

\* C34: after truncate() on a Horizontal Dataframe with k >= 1 columns,
\* append(record) stores a record of length k validated against the surviving
\* columns, so that every record in data still has length columns.len().
C34_SchemaSurvives ==
    (EndOf("truncate") /\ pre.data_orientation = Horizontal
        /\ Structured(pre) /\ Len(pre.columns) >= 1) =>
        \A record \in ArgRecords :
            /\ ~append(Self, record).panic
            /\ append(Self, record).columns = pre.columns
            /\ append(Self, record).data = <<ValidatedRow(record, pre.columns)>>
            /\ \A i \in 1..Len(append(Self, record).data) :
                    Len(append(Self, record).data[i]) = Len(columns)

(* Dynamic mode on a short record *)

\* every cell of the record is the missing tag
AllMissing(rec) == \A i \in 1..Len(rec) : rec[i] = NoneCell

\* the watched append gave a Vertical Dataframe a record of fewer than two cells
ShortAppend ==
    /\ pc = "end" /\ op = "append"
    /\ pre.data_orientation = Vertical
    /\ Structured(pre)
    /\ Len(arg.data) < 2

\* the watched insert gave a Horizontal Dataframe a column of one cell, its
\* name, at a position not beyond the columns
ShortColumn ==
    /\ pc = "end" /\ op = "insert"
    /\ pre.data_orientation = Horizontal
    /\ Structured(pre)
    /\ arg.orient = Vertical
    /\ Len(arg.series) = 1
    /\ arg.index <= pre.size[2]

\* the watched call was new(records, Vertical) on records the first of which
\* has two cells or more
VerticalBuilt ==
    /\ pc = "end" /\ op = "new"
    /\ arg.orient = Vertical
    /\ Len(arg.data) > 0
    /\ Len(arg.data[1]) >= 2

\* C35: when a record processed in Dynamic mode (a Vertical append, a column
\* inserted into a Horizontal Dataframe, or a non-first record of Vertical
\* construction) has fewer than two cells, the discovered column is the default
\* one (empty name, none type) even though a name cell was supplied, every cell
\* emitted for it is the missing tag, and the operation still grows
\* data/columns by one without faulting.
C35_ShortDynamicRecord ==
    /\ ShortAppend =>
            /\ ~fault
            /\ columns = Append(pre.columns, DefaultColumn)
            /\ Len(data) = Len(pre.data) + 1
            /\ Extends(data, pre.data)
            /\ AllMissing(data[Len(data)])
    /\ ShortColumn =>
            /\ ~fault
            /\ columns = VecInsert(pre.columns, arg.index, DefaultColumn)
            /\ Len(data) = Len(pre.data)
            /\ \A i \in 1..Len(data) :
                    data[i] = VecInsert(pre.data[i], arg.index, NoneCell)
    /\ VerticalBuilt =>
            /\ ~fault
            /\ Len(data) = Len(arg.data)
            /\ Len(columns) = Len(arg.data)
            /\ \A k \in 2..Len(arg.data) :
                    Len(arg.data[k]) < 2 =>
                        /\ columns[k] = DefaultColumn
                        /\ AllMissing(data[k])

\* a record holding only the name "a" was appended to a Vertical Dataframe
\* that has a label, and the record stored for it holds a missing tag
C35_Witness ==
    /\ ShortAppend
    /\ arg.data = <<StringCell("a")>>
    /\ pre.size[2] >= 1
    /\ ~fault
    /\ columns[Len(columns)] = DefaultColumn
    /\ Len(data[Len(data)]) >= 1

(* transpose and the structural invariant *)

\* the column entry that governs the cell of df at outer position i and inner
\* position j
Governing(df, i, j) ==
    IF df.data_orientation = Horizontal THEN df.columns[j] ELSE df.columns[i]

\* the watched call was transpose() on a Horizontal or Vertical Dataframe that
\* meets the structural invariant of its orientation
TransposedStructured ==
    /\ pc = "end" /\ op = "transpose"
    /\ pre.data_orientation \in Axes
    /\ Structured(pre)

\* C36: if a Horizontal Dataframe satisfies the Horizontal invariant (or a
\* Vertical one the Vertical invariant) before transpose(), then afterwards it
\* satisfies the invariant of its new orientation with the untouched columns
\* and indices, and each cell is still governed by the column entry that
\* governed it before, so it still has that column's type.
C36_TransposeKeepsCoupling ==
    TransposedStructured =>
        /\ ~fault
        /\ data_orientation = Flipped(pre.data_orientation)
        /\ Structured(Self)
        /\ columns = pre.columns
        /\ indices = pre.indices
        /\ \A i \in 1..pre.size[1] : \A j \in 1..pre.size[2] :
                /\ data[j][i] = pre.data[i][j]
                /\ Governing(Self, j, i) = Governing(pre, i, j)
                /\ Conforms(pre.data[i][j], Governing(pre, i, j)) =>
                        Conforms(data[j][i], Governing(Self, j, i))

\* a Dataframe of one record of two cells under two columns of different types,
\* or of two records of one cell, was transposed
C36_Witness ==
    /\ TransposedStructured
    /\ ~fault
    /\ pre.size[1] >= 1 /\ pre.size[2] >= 1
    /\ pre.size[1] # pre.size[2]
    /\ Len(pre.columns) = 2 => pre.columns[1].col_type # pre.columns[2].col_type
    /\ Structured(Self)

(* auto labels *)

\* the watched call was an append to a Horizontal Dataframe that the
\* constructor left with the labels Id(0)..Id(n-1) of its n rows
AppendedToBuilt ==
    /\ EndOf("append")
    /\ calls = 1
    /\ pre.data_orientation = Horizontal
    /\ Structured(pre)
    /\ pre.indices = AutoIds(pre.size[1])

\* C37: a Horizontal Dataframe built by new or from_2d_vec with n rows (labels
\* Id(0)..Id(n-1)) and then grown only by k appends has labels exactly Id(0),
\* Id(1), ..., Id(n+k-1) in order: each append pushes the label equal to the
\* new row's position.
C37_LabelsContinue ==
    AppendedToBuilt =>
        /\ indices = AutoIds(pre.size[1] + 1)
        /\ \A record \in ArgRecords :
                append(Self, record).indices = AutoIds(pre.size[1] + 2)

\* no entry occurs twice in s
Distinct(s) == \A i \in 1..Len(s) : \A j \in 1..Len(s) : s[i] = s[j] => i = j

\* the watched call was the first call on a Horizontal Dataframe that the
\* constructor left with the labels Id(0)..Id(n-1), and was an append, an
\* insert of a row or a delete of a row
LabelsGenerated ==
    /\ pc = "end"
    /\ calls = 1
    /\ pre.data_orientation = Horizontal
    /\ Structured(pre)
    /\ pre.indices = AutoIds(pre.size[1])
    /\ \/ op = "append"
       \/ op \in {"insert", "delete"} /\ arg.orient = Horizontal

\* C38: on a Horizontal Dataframe whose labels were all generated by the
\* engine (construction, append, insert of a row), after a sequence of append,
\* insert (row axis) and delete (row axis) calls the entries of indices are
\* pairwise distinct. Stated for the sequences of one call and of two.
C38_LabelsUnique ==
    LabelsGenerated =>
        /\ Distinct(indices)
        /\ \A record \in ArgRecords :
                /\ Distinct(append(Self, record).indices)
                /\ \A p \in ArgPositions :
                        Distinct(insert(Self, p, record, Horizontal).indices)
        /\ \A p \in ArgPositions : \A overflow_checks \in BOOLEAN :
                Distinct(delete(Self, p, Horizontal, overflow_checks).indices)

(* delete on a Raw Dataframe *)

\* the watched call was delete(p, axis) on a Raw Dataframe that holds what the
\* axis asks for at p: a record at position p for the row axis, a cell at
\* position p of every record for the column axis
DeletedRaw ==
    /\ pc = "end" /\ op = "delete"
    /\ pre.data_orientation = Raw
    /\ arg.orient \in Axes
    /\ Len(pre.data) >= arg.index + 1
    /\ arg.orient = Vertical =>
            \A i \in 1..Len(pre.data) : Len(pre.data[i]) >= arg.index + 1

\* C39: for a Raw Dataframe with at least p+1 records, delete(p, row axis)
\* removes exactly the record data[p] and keeps all other records in order, and
\* delete(p, column axis) removes the cell at position p from every record;
\* neither consults size or indices.
C39_RawDelete ==
    DeletedRaw =>
        /\ ~fault
        /\ Self = [pre EXCEPT !.data =
                    IF arg.orient = Horizontal
                    THEN VecRemove(pre.data, arg.index)
                    ELSE [i \in 1..Len(pre.data) |->
                            VecRemove(pre.data[i], arg.index)]]

\* the record holds a cell
HoldsCells(record) == Len(record) > 0

\* the watched call was insert_many of a batch with an empty record in it, at
\* a position not beyond the chosen axis of a Horizontal or Vertical Dataframe
InsertedManyWithEmpty ==
    /\ pc = "end"
    /\ op = "insert_many"
    /\ pre.data_orientation \in Axes
    /\ Structured(pre)
    /\ \E i \in 1..Len(arg.dataframe) : ~HoldsCells(arg.dataframe[i])
    /\ arg.index <= AxisLength(pre, arg.orient)

\* C40: insert_many(position, batch, axis) where some records of the batch are
\* empty skips those records and inserts the non-empty ones contiguously
\* starting at position in input order, without faulting whenever position
\* itself is in range: the Dataframe ends as if the batch had been given
\* without its empty records.
C40_EmptySkipped ==
    InsertedManyWithEmpty =>
        /\ ~fault
        /\ Self = InsertedInOrder(pre, arg.index,
                                  SelectSeq(arg.dataframe, HoldsCells), arg.orient,
                                  Len(SelectSeq(arg.dataframe, HoldsCells)))
=============================================================================
